---------------------------- MODULE Spec2Model ----------------------------
(***************************************************************************)
(* Verification model of the VoiceAgent-Livekit repository.                *)
(*                                                                         *)
(*   SpecCalc    TurnMetrics.calculate_metrics (agent-with-metrics.py) as  *)
(*               a pure function over bounded turns.                       *)
(*   SpecMetrics MetricsCollector, the Assistant lifecycle callbacks, the  *)
(*               entrypoint greeting and export_to_excel                   *)
(*               (agent-with-metrics.py).                                  *)
(*   SpecShutdown the exports made when the session and the process end:   *)
(*               entrypoint's finally block, the KeyboardInterrupt handler *)
(*               and the atexit hook (agent-with-metrics.py).              *)
(*   SpecAssistant the timer fields of the queue variant's Assistant and   *)
(*               the records its event handlers build (agent.py).          *)
(*   SpecQueue   the cross-process metrics queue, its producer             *)
(*               Assistant._on_llm_finished, the draining task             *)
(*               run_metrics_writer and main() (agent.py);                 *)
(*               SpecQueueFair adds the scheduling of the draining task.   *)
(*   SpecMinimal the transcription tasks of a5.py's entrypoint and the     *)
(*               room events that start and cancel them.                   *)
(*   SpecStartup the environment checks each script makes before it runs   *)
(*               its worker.                                               *)
(*                                                                         *)
(* Time is counted in units of 10 ms.  Python's None, for an Optional      *)
(* timestamp, is the value None below, which lies outside every clock      *)
(* reading (clock readings are >= 0).                                      *)
(***************************************************************************)
EXTENDS Integers, Sequences, FiniteSets, TLC

\* ------------------------------------------------------------------ bounds
\* Largest timestamp drawn for the turns calculate_metrics is applied to.
MaxStamp == 2

\* The clock reading when the process starts, and the last one that time is
\* let pass to between two operations (generate_response moves the clock over
\* its sleeps whatever it reads).
SessionStart == 1

MaxTime == 2

\* How many speech callbacks (on_user_speech_start, on_user_speech_end) and how
\* many generate_response calls one session is explored with.
MaxSpeech == 2

MaxResponses == 1

\* How many records the worker puts on the metrics queue.
MaxPuts == 3

\* How many transcription tasks are created in one room.
MaxTasks == 3

\* How many events other than 'LLM stream finished' the queue variant's
\* Assistant is explored with, and the largest reading of its clock.
MaxHeard == 3

MaxClock == 2

\* ------------------------------------------------------------- variables
VARIABLES
    calc_turn,          \* SpecCalc: the TurnMetrics instance (self)
    calc_result,        \* SpecCalc: what calculate_metrics returned, or NotCalled
    metrics_collector,  \* SpecMetrics: the global MetricsCollector
    now,                \* SpecMetrics: the wall clock, time.time()
    entry_pc,           \* SpecMetrics: where entrypoint() is
    fs,                 \* SpecMetrics: the report files written, by name
    speech_calls,       \* SpecMetrics: how many speech callbacks have run
    exchanges,          \* SpecMetrics: for each generate_response that has
                        \*   returned, the position in turns of the turn it wrote
    last,               \* SpecMetrics: the last operation, what it found and
                        \*   what it returned
    metrics_queue,      \* SpecQueue: the multiprocessing Queue, oldest first
    records,            \* SpecQueue: run_metrics_writer's list of records
    writer_pc,          \* SpecQueue: where run_metrics_writer is
    main_pc,            \* SpecQueue: where main() is
    runner_done,        \* SpecQueue: runner.done()
    output_file,        \* SpecQueue: output_metrics.xlsx
    prior_file,         \* SpecQueue: output_metrics.xlsx as the run found it
    put_count,          \* SpecQueue: how many records have been put
    put_before_cancel,  \* SpecQueue: the records put before writer_task.cancel()
    put_while_waiting,  \* SpecQueue: the serials of the records put while the
                        \*   writer waited after an empty poll
    assistant,          \* SpecAssistant: the timer fields of the Assistant
    clock,              \* SpecAssistant: time.time() in the job
    assistant_events,   \* SpecAssistant: the events the Assistant has handled,
                        \*   oldest first
    transcription_tasks,\* SpecMinimal: a5.py's dict, identity -> task
    tasks,              \* SpecMinimal: the transcribe_audio tasks created, in
                        \*   order of creation
    room_connected,     \* SpecMinimal: ctx.room.connection_state is CONN_CONNECTED
    minimal_pc,         \* SpecMinimal: where a5.py's entrypoint is
    last_event,         \* SpecMinimal: the last room event handled
    startup             \* SpecStartup: the variant started, its environment
                        \*   and how far the start got

varsCalc == <<calc_turn, calc_result>>

varsMetrics == <<metrics_collector, now, entry_pc, fs, exchanges, speech_calls, last>>

varsAssistant == <<assistant, clock, assistant_events>>

varsQueue == <<metrics_queue, records, writer_pc, main_pc, runner_done,
               output_file, prior_file, put_count, put_before_cancel,
                   put_while_waiting, varsAssistant>>

varsMinimal == <<transcription_tasks, tasks, room_connected, minimal_pc, last_event>>

varsStartup == <<startup>>

vars == <<varsCalc, varsMetrics, varsQueue, varsMinimal, varsStartup>>

\* ------------------------------------------------ TurnMetrics (dataclass)
None == -1

EmptyText == ""

\* The names of the Optional[float] fields of TurnMetrics.
StampFields ==
    {"user_speech_start", "user_speech_end", "llm_processing_start",
     "llm_first_token", "llm_processing_end", "tts_start", "tts_first_byte",
     "tts_end", "audio_playback_start", "audio_playback_end"}

\* TurnMetrics(turn_id=id, timestamp=ts): every other field at its default.
TurnMetrics(id, ts) ==
    [turn_id              |-> id,
     timestamp            |-> ts,
     user_speech_start    |-> None,
     user_speech_end      |-> None,
     llm_processing_start |-> None,
     llm_first_token      |-> None,
     llm_processing_end   |-> None,
     tts_start            |-> None,
     tts_first_byte       |-> None,
     tts_end              |-> None,
     audio_playback_start |-> None,
     audio_playback_end   |-> None,
     user_text            |-> EmptyText,
     assistant_text       |-> EmptyText]

\* Python truth value of an Optional[float]: None and 0.0 are both false.
Truthy(x) == x # None /\ x # 0

\* The empty dict, and d[k] = v on a dict.
EmptyDict == [k \in {} |-> 0]

DictSet(d, k, v) == [x \in DOMAIN d \cup {k} |-> IF x = k THEN v ELSE d[x]]

\* TurnMetrics.calculate_metrics: one guarded assignment after the other.
calculate_metrics(self) ==
    LET m0 == EmptyDict
        m1 == IF Truthy(self.user_speech_end) /\ Truthy(self.llm_processing_start)
              THEN DictSet(m0, "eou_delay",
                           (self.llm_processing_start - self.user_speech_end) * 1000)
              ELSE m0
        m2 == IF Truthy(self.llm_processing_start) /\ Truthy(self.llm_first_token)
              THEN DictSet(m1, "ttft",
                           (self.llm_first_token - self.llm_processing_start) * 1000)
              ELSE m1
        m3 == IF Truthy(self.tts_start) /\ Truthy(self.tts_first_byte)
              THEN DictSet(m2, "ttfb",
                           (self.tts_first_byte - self.tts_start) * 1000)
              ELSE m2
        m4 == IF Truthy(self.user_speech_end) /\ Truthy(self.audio_playback_start)
              THEN DictSet(m3, "total_latency",
                           (self.audio_playback_start - self.user_speech_end) * 1000)
              ELSE m3
        m5 == IF Truthy(self.llm_processing_start) /\ Truthy(self.llm_processing_end)
              THEN DictSet(m4, "llm_processing_time",
                           (self.llm_processing_end - self.llm_processing_start) * 1000)
              ELSE m4
        m6 == IF Truthy(self.tts_start) /\ Truthy(self.tts_end)
              THEN DictSet(m5, "tts_processing_time",
                           (self.tts_end - self.tts_start) * 1000)
              ELSE m5
        m7 == IF Truthy(self.user_speech_start) /\ Truthy(self.user_speech_end)
              THEN DictSet(m6, "user_speech_duration",
                           (self.user_speech_end - self.user_speech_start) * 1000)
              ELSE m6
    IN  m7

\* ------------------------------------------------------ MetricsCollector
\* current_turn is None, or the turn object at this position of turns.
NoTurn == 0

\* MetricsCollector.__init__ at clock reading t.  session_id is the start time
\* formatted to the second.
MetricsCollector(t) ==
    [session_start_time |-> t,
     session_id         |-> ToString(t),
     turns              |-> << >>,
     current_turn       |-> NoTurn,
     turn_counter       |-> 0,
     events_log         |-> << >>]

\* An argument passed as `data`: its Python truth value and its str().
NoData == [truthy |-> FALSE, str |-> "None"]

IntData(n) == [truthy |-> n # 0, str |-> ToString(n)]

StrData(s) == [truthy |-> s # "", str |-> s]

\* MetricsCollector.log_event: data is stored as str(data) if data else None;
\* the stored value is << >> for None and <<s>> for the string s.
log_event_replacing(self, t, event_type, data) ==
    [self EXCEPT !.events_log =
        << [timestamp |-> t,
            event     |-> event_type,
            data      |-> IF data.truthy THEN <<data.str>> ELSE << >>] >>]

log_event(self, t, event_type, data) ==
    [self EXCEPT !.events_log =
        Append(@, [timestamp |-> t,
                   event     |-> event_type,
                   data      |-> IF data.truthy THEN <<data.str>> ELSE << >>])]

\* MetricsCollector.start_new_turn at clock reading t; the turn it returns is
\* the new current_turn.
start_new_turn_no_increment(self, t) ==
    LET turn == TurnMetrics(self.turn_counter, t)
        s1   == [self EXCEPT !.current_turn = Len(self.turns) + 1,
                             !.turns = Append(@, turn)]
    IN  log_event(s1, t, "new_turn", IntData(s1.turn_counter))

start_new_turn_keeps_first(self, t) ==
    LET s1   == [self EXCEPT !.turn_counter = @ + 1]
        turn == TurnMetrics(s1.turn_counter, t)
        s2   == [s1 EXCEPT !.current_turn = IF @ = NoTurn THEN 1 ELSE @,
                           !.turns = Append(@, turn)]
    IN  log_event(s2, t, "new_turn", IntData(s2.turn_counter))

start_new_turn_unlogged(self, t) ==
    LET s1   == [self EXCEPT !.turn_counter = @ + 1]
        turn == TurnMetrics(s1.turn_counter, t)
    IN  [s1 EXCEPT !.current_turn = Len(s1.turns) + 1,
                   !.turns = Append(@, turn)]

start_new_turn(self, t) ==
    LET s1   == [self EXCEPT !.turn_counter = @ + 1]
        turn == TurnMetrics(s1.turn_counter, t)
        s2   == [s1 EXCEPT !.current_turn = Len(s1.turns) + 1,
                           !.turns = Append(@, turn)]
    IN  log_event(s2, t, "new_turn", IntData(s2.turn_counter))

\* ------------------------------------------------- Assistant callbacks
\* Assistant.on_user_speech_start at clock reading t.
on_user_speech_start(m, t) ==
    LET m1 == IF m.current_turn = NoTurn THEN start_new_turn(m, t) ELSE m
        m2 == [m1 EXCEPT !.turns[m1.current_turn].user_speech_start = t]
    IN  log_event(m2, t, "user_speech_start", NoData)

\* Assistant.on_user_speech_end at clock reading t.
on_user_speech_end_lazy(m, t, transcript) ==
    LET m0 == IF m.current_turn = NoTurn THEN start_new_turn(m, t) ELSE m
        m1 == [m0 EXCEPT !.turns[m0.current_turn].user_speech_end = t,
                         !.turns[m0.current_turn].user_text = transcript]
    IN  log_event(m1, t, "user_speech_end", StrData(transcript))

on_user_speech_end(m, t, transcript) ==
    IF m.current_turn # NoTurn
    THEN LET m1 == [m EXCEPT !.turns[m.current_turn].user_speech_end = t,
                             !.turns[m.current_turn].user_text = transcript]
         IN  log_event(m1, t, "user_speech_end", StrData(transcript))
    ELSE m

\* The reply generate_response builds from the user's input.
Response(user_input) ==
    "I heard you say: '" \o user_input \o "'. How can I help you further?"

\* asyncio.sleep(0.05), asyncio.sleep(0.03), asyncio.sleep(0.02), in 10 ms.
SleepTtft == 5

SleepTtsFirstByte == 3

SleepTtsEnd == 2

Apology == "I'm sorry, I encountered an error processing your request."

\* Where the body of generate_response's try block raises: nowhere, or in the
\* TTS step (the await of line 280), after the reply text is built.
ResponseFaults == {"none", "tts"}

\* The except branch of generate_response at clock reading t: the error is
\* logged and the apology returned.  at_failure is the collector as the
\* exception found it.
response_error_propagates(at_failure, t) ==
    [collector  |-> at_failure,
     ret        |-> "",
     end        |-> t,
     raised     |-> TRUE,
     at_failure |-> [n_turns |-> Len(at_failure.turns),
                     turn_counter |-> at_failure.turn_counter,
                     n_events |-> Len(at_failure.events_log)]]

response_error(at_failure, t) ==
    [collector  |-> log_event(at_failure, t, "error", StrData("error")),
     ret        |-> Apology,
     end        |-> t,
     raised     |-> FALSE,
     at_failure |-> [n_turns |-> Len(at_failure.turns),
                     turn_counter |-> at_failure.turn_counter,
                     n_events |-> Len(at_failure.events_log)]]

\* Assistant.generate_response entered at clock reading t; each sleep returns
\* after its nominal time (an overshoot stays below the clock's 10 ms unit).
\* Returns the collector, the reply and the clock reading at return.
generate_response(m, t, user_input, fault) ==
    LET m1 == IF m.current_turn = NoTurn THEN start_new_turn(m, t) ELSE m
        c  == m1.current_turn
        m2 == IF ~Truthy(m1.turns[c].user_speech_end)
              THEN [m1 EXCEPT !.turns[c].user_speech_end = t,
                              !.turns[c].user_text = user_input]
              ELSE m1
        m3 == log_event([m2 EXCEPT !.turns[c].llm_processing_start = t],
                        t, "llm_processing_start", NoData)
        t1 == t + SleepTtft
        m4 == log_event([m3 EXCEPT !.turns[c].llm_first_token = t1],
                        t1, "llm_first_token", NoData)
        response == Response(user_input)
        m5 == log_event([m4 EXCEPT !.turns[c].llm_processing_end = t1,
                                   !.turns[c].assistant_text = response],
                        t1, "llm_processing_end", StrData(response))
        m6 == log_event([m5 EXCEPT !.turns[c].tts_start = t1],
                        t1, "tts_start", NoData)
        t2 == t1 + SleepTtsFirstByte
        m7 == log_event([m6 EXCEPT !.turns[c].tts_first_byte = t2],
                        t2, "tts_first_byte", NoData)
        t3 == t2 + SleepTtsEnd
        m8 == log_event([m7 EXCEPT !.turns[c].tts_end = t3],
                        t3, "tts_end", NoData)
        m9 == log_event([m8 EXCEPT !.turns[c].audio_playback_start = t3],
                        t3, "audio_playback_start", NoData)
    IN  IF fault = "tts"
        THEN response_error(m6, t1)
        ELSE [collector |-> m9, ret |-> response, end |-> t3,
              raised |-> FALSE,
              at_failure |-> [n_turns |-> 0, turn_counter |-> 0, n_events |-> 0]]

\* The greeting's offsets: time.time() + 0.01 and time.time() + 0.05, in 10 ms.
GreetingFirstToken == 1

GreetingEnd == 5

GreetingText == "Hello! I'm your voice assistant. How can I help you today?"

\* entrypoint, "Initial greeting": a new turn with the LLM stamps filled in.
greeting(m, t) ==
    LET m1 == start_new_turn(m, t)
        c  == m1.current_turn
    IN  [m1 EXCEPT !.turns[c].llm_processing_start = t,
                   !.turns[c].llm_first_token = t + GreetingFirstToken,
                   !.turns[c].llm_processing_end = t + GreetingEnd,
                   !.turns[c].assistant_text = GreetingText]

\* ------------------------------------------- MetricsCollector.export_to_excel
\* A cell of a metric column: the marker 'N/A' or a number of milliseconds.
NA == [na |-> TRUE, value |-> 0]

Num(v) == [na |-> FALSE, value |-> v]

\* metrics.get(key, 'N/A')
DictGetZero(d, key) == IF key \in DOMAIN d THEN Num(d[key]) ELSE Num(0)

DictGet(d, key) == IF key \in DOMAIN d THEN Num(d[key]) ELSE NA

\* numeric_columns, and the metric each is filled from.
numeric_columns ==
    <<"EOU Delay (ms)", "TTFT (ms)", "TTFB (ms)", "Total Latency (ms)",
      "LLM Processing Time (ms)", "TTS Processing Time (ms)",
      "User Speech Duration (ms)">>

MetricOfColumn ==
    [c \in {numeric_columns[i] : i \in 1 .. Len(numeric_columns)} |->
        CASE c = "EOU Delay (ms)"            -> "eou_delay"
          [] c = "TTFT (ms)"                 -> "ttft"
          [] c = "TTFB (ms)"                 -> "ttfb"
          [] c = "Total Latency (ms)"        -> "total_latency"
          [] c = "LLM Processing Time (ms)"  -> "llm_processing_time"
          [] c = "TTS Processing Time (ms)"  -> "tts_processing_time"
          [] c = "User Speech Duration (ms)" -> "user_speech_duration"]

RowColumns ==
    <<"Turn ID", "Timestamp", "User Text", "Assistant Text">> \o numeric_columns

\* The row export_to_excel builds for one turn.
ExportRow(turn) ==
    LET metrics == calculate_metrics(turn)
    IN  [c \in {RowColumns[i] : i \in 1 .. Len(RowColumns)} |->
            CASE c = "Turn ID"        -> turn.turn_id
              [] c = "Timestamp"      -> turn.timestamp
              [] c = "User Text"      -> turn.user_text
              [] c = "Assistant Text" -> turn.assistant_text
              [] OTHER                -> DictGet(metrics, MetricOfColumn[c])]

\* pd.DataFrame(rows): a list of no rows gives a frame with no columns.
DataFrame(rows) ==
    [columns |-> IF rows = << >> THEN << >> ELSE RowColumns,
     rows    |-> rows]

HasColumn(df, col) == \E i \in 1 .. Len(df.columns) : df.columns[i] = col

RECURSIVE SumSeq(_)
SumSeq(s) == IF s = << >> THEN 0 ELSE Head(s) + SumSeq(Tail(s))

MinSeq(s) == CHOOSE v \in {s[i] : i \in 1 .. Len(s)} :
                 \A j \in 1 .. Len(s) : v <= s[j]

MaxSeq(s) == CHOOSE v \in {s[i] : i \in 1 .. Len(s)} :
                 \A j \in 1 .. Len(s) : v >= s[j]

ValidValuesUnfiltered(rows, col) == [i \in 1 .. Len(rows) |-> rows[i][col].value]

RECURSIVE ValidValues(_, _)
\* [v for v in df[col] if v != 'N/A' and pd.notna(v)]
ValidValues(rows, col) ==
    IF rows = << >> THEN << >>
    ELSE LET v == Head(rows)[col]
         IN  (IF v.na THEN << >> ELSE <<v.value>>) \o ValidValues(Tail(rows), col)

RECURSIVE SummaryData(_, _)
\* summary_data: one entry for each column of cols that has a valid value.
\* Average is the quotient num / den.
SummaryData(df, cols) ==
    IF cols = << >> THEN << >>
    ELSE LET col == Head(cols)
             valid_values == ValidValues(df.rows, col)
         IN  (IF valid_values # << >>
              THEN << [Metric  |-> col,
                       Average |-> [num |-> SumSeq(valid_values),
                                    den |-> Len(valid_values)],
                       Min     |-> MinSeq(valid_values),
                       Max     |-> MaxSeq(valid_values),
                       Count   |-> Len(valid_values)] >>
              ELSE << >>) \o SummaryData(df, Tail(cols))

\* A file name is the sequence of its pieces; the empty string is << >>.
DefaultFilename(self) == <<"voice_agent_metrics_", self.session_id, ".xlsx">>

\* filename.replace(old, new)
RECURSIVE Replace(_, _, _)
Replace(name, old, new) ==
    IF name = << >> THEN << >>
    ELSE <<IF Head(name) = old THEN new ELSE Head(name)>>
         \o Replace(Tail(name), old, new)

\* The except branch of export_to_excel ("Fallback to CSV"): df.to_csv raises
\* NameError when df is unbound and whatever the write raises when it fails;
\* the inner except turns both into the return value "".
csv_fallback_returns_filename(filename, df, df_bound, csv_fails, failed_at) ==
    LET csv_filename == Replace(filename, ".xlsx", ".csv")
    IN  IF df_bound /\ ~csv_fails
        THEN [ret |-> filename,
              files |-> [n \in {csv_filename} |-> [format |-> "csv", frame |-> df]],
              failed_at |-> failed_at, csv_failed |-> FALSE, raised |-> FALSE]
        ELSE [ret |-> << >>, files |-> [n \in {} |-> 0],
              failed_at |-> failed_at, csv_failed |-> df_bound, raised |-> FALSE]

csv_fallback_unguarded(filename, df, df_bound, csv_fails, failed_at) ==
    LET csv_filename == Replace(filename, ".xlsx", ".csv")
    IN  IF df_bound /\ ~csv_fails
        THEN [ret |-> csv_filename,
              files |-> [n \in {csv_filename} |-> [format |-> "csv", frame |-> df]],
              failed_at |-> failed_at, csv_failed |-> FALSE, raised |-> FALSE]
        ELSE [ret |-> << >>, files |-> [n \in {} |-> 0],
              failed_at |-> failed_at, csv_failed |-> df_bound, raised |-> TRUE]

csv_fallback(filename, df, df_bound, csv_fails, failed_at) ==
    LET csv_filename == Replace(filename, ".xlsx", ".csv")
    IN  IF df_bound /\ ~csv_fails
        THEN [ret |-> csv_filename,
              files |-> [n \in {csv_filename} |-> [format |-> "csv", frame |-> df]],
              failed_at |-> failed_at, csv_failed |-> FALSE, raised |-> FALSE]
        ELSE [ret |-> << >>, files |-> [n \in {} |-> 0],
              failed_at |-> failed_at, csv_failed |-> df_bound, raised |-> FALSE]

\* What can go wrong in one export: nothing, an exception while the rows and
\* the DataFrame are built (df is then unbound), or the spreadsheet write.
ExportFaults == {"none", "rows", "xlsx_write"}

\* MetricsCollector.export_to_excel() at clock reading t, without a filename.
\* Returns what it returned (ret), the files it wrote, and the step whose
\* exception sent it to the except branch ("none" when the try block ended).
export_to_excel(self, t, fault, csv_fails) ==
    LET filename == DefaultFilename(self)
        export_data == [i \in 1 .. Len(self.turns) |-> ExportRow(self.turns[i])]
        df == DataFrame(export_data)
        df_bound == fault # "rows"
        \* df[col] raises KeyError for a column the frame does not have
        key_error == \E i \in 1 .. Len(numeric_columns) :
                         ~HasColumn(df, numeric_columns[i])
        failed_at == IF fault = "rows" THEN "rows"
                     ELSE IF key_error THEN "summary"
                     ELSE IF fault = "xlsx_write" THEN "xlsx_write"
                     ELSE "none"
        workbook ==
            [format             |-> "xlsx",
             detailed_metrics   |-> df,
             summary_statistics |-> SummaryData(df, numeric_columns),
             events_log         |-> self.events_log,
             session_info       |->
                 [session_id    |-> self.session_id,
                  session_start |-> self.session_start_time,
                  total_turns   |-> Len(self.turns),
                  \* minutes: the quotient num / den
                  session_duration |-> [num |-> t - self.session_start_time,
                                        den |-> 6000]]]
    IN  IF failed_at = "none"
        THEN [ret |-> filename,
              files |-> [n \in {filename} |-> workbook],
              failed_at |-> failed_at, csv_failed |-> FALSE, raised |-> FALSE]
        ELSE csv_fallback(filename, df, df_bound, csv_fails, failed_at)

\* The file system after the files of one export are written.
WriteFiles(files, written) ==
    [n \in DOMAIN files \cup DOMAIN written |->
        IF n \in DOMAIN written THEN written[n] ELSE files[n]]

\* ----------------------------------------------------------- SpecMetrics
\* The transcripts on_user_speech_end is called with, and the user input
\* generate_response is called with.
Texts == {"", "hi"}

Inputs == {"hello"}

NoExport == [ret |-> << >>, fault |-> "none", failed_at |-> "none",
             csv_failed |-> FALSE, raised |-> FALSE]

NoResponse == [ret |-> "", fault |-> "none", raised |-> FALSE,
               at_failure |-> [n_turns |-> 0, turn_counter |-> 0, n_events |-> 0]]

\* The record of an operation op that started on the collector m.
Last(op, m, export) ==
    [op       |-> op,
     had_turn |-> m.current_turn # NoTurn,
     n_turns  |-> Len(m.turns),
     export   |-> export,
     response |-> NoResponse]

MetricsInit ==
    /\ metrics_collector = MetricsCollector(SessionStart)
    /\ now = SessionStart
    /\ entry_pc = "init"
    /\ fs = [n \in {} |-> 0]
    /\ exchanges = << >>
    /\ speech_calls = 0
    /\ last = Last("none", MetricsCollector(SessionStart), NoExport)

\* The agent session is live (callbacks are delivered) from session.start
\* until entrypoint leaves its try block.
SessionLive == entry_pc \in {"session", "greeted"}

\* Time passes.
Tick ==
    /\ now < MaxTime
    /\ now' = now + 1
    /\ UNCHANGED <<metrics_collector, entry_pc, fs, exchanges, speech_calls, last>>
    /\ UNCHANGED <<varsCalc, varsQueue, varsMinimal, varsStartup>>

\* entrypoint: AgentSession(...), Assistant(), session.start(...), ctx.connect().
EntrypointStart ==
    /\ entry_pc = "init"
    /\ entry_pc' = "session"
    /\ UNCHANGED <<metrics_collector, now, fs, exchanges, speech_calls, last>>
    /\ UNCHANGED <<varsCalc, varsQueue, varsMinimal, varsStartup>>

\* entrypoint: the initial greeting.
EntrypointGreeting ==
    /\ entry_pc = "session"
    /\ metrics_collector' = greeting(metrics_collector, now)
    /\ entry_pc' = "greeted"
    /\ last' = Last("greeting", metrics_collector, NoExport)
    /\ UNCHANGED <<now, fs, exchanges, speech_calls>>
    /\ UNCHANGED <<varsCalc, varsQueue, varsMinimal, varsStartup>>

\* entrypoint: an exception inside the outer try block.
EntrypointError ==
    /\ entry_pc \in {"init", "session", "greeted"}
    /\ metrics_collector' =
           log_event(metrics_collector, now, "entrypoint_error", StrData("error"))
    /\ entry_pc' = "failed"
    /\ last' = Last("entrypoint_error", metrics_collector, NoExport)
    /\ UNCHANGED <<now, fs, exchanges, speech_calls>>
    /\ UNCHANGED <<varsCalc, varsQueue, varsMinimal, varsStartup>>

\* One call of metrics_collector.export_to_excel().
ExportAndClear(op, fault, csv_fails) ==
    \E r \in {export_to_excel(metrics_collector, now, fault, csv_fails)} :
        /\ fs' = WriteFiles(fs, r.files)
        /\ last' = Last(op, metrics_collector,
                        [ret |-> r.ret, fault |-> fault, failed_at |-> r.failed_at,
                         csv_failed |-> r.csv_failed, raised |-> r.raised])
        /\ metrics_collector' = [metrics_collector EXCEPT !.turns = << >>,
                                                          !.current_turn = NoTurn]
        /\ UNCHANGED <<now, exchanges, speech_calls>>

Export(op, fault, csv_fails) ==
    \E r \in {export_to_excel(metrics_collector, now, fault, csv_fails)} :
        /\ fs' = WriteFiles(fs, r.files)
        /\ last' = Last(op, metrics_collector,
                        [ret |-> r.ret, fault |-> fault, failed_at |-> r.failed_at,
                         csv_failed |-> r.csv_failed, raised |-> r.raised])
        /\ UNCHANGED <<metrics_collector, now, exchanges, speech_calls>>

\* entrypoint: the finally block, after the room disconnects or after an error.
EntrypointFinally ==
    /\ entry_pc \in {"greeted", "failed"}
    /\ \E fault \in ExportFaults, csv_fails \in BOOLEAN :
           Export("export_to_excel", fault, csv_fails)
    /\ entry_pc' = "ended"
    /\ UNCHANGED <<varsCalc, varsQueue, varsMinimal, varsStartup>>

\* The two exports after the session, guarded by `if metrics_collector.turns`:
\* with no turn nothing is exported.
ExportIfTurns(op) ==
    \/ /\ metrics_collector.turns # << >>
       /\ \E fault \in ExportFaults, csv_fails \in BOOLEAN : Export(op, fault, csv_fails)
    \/ /\ metrics_collector.turns = << >>
       /\ last' = Last(op, metrics_collector, NoExport)
       /\ UNCHANGED <<metrics_collector, now, fs, exchanges, speech_calls>>

\* __main__: run_app ends with KeyboardInterrupt, before a job was run or
\* after the session; the handler makes the final export.
KeyboardInterruptExport ==
    /\ entry_pc \in {"init", "ended"}
    /\ ExportIfTurns("keyboard_interrupt")
    /\ entry_pc' = "interrupted"
    /\ UNCHANGED <<varsCalc, varsQueue, varsMinimal, varsStartup>>

\* export_metrics_on_exit, run by atexit when the interpreter exits.
ExportMetricsOnExit ==
    /\ entry_pc \in {"init", "ended", "interrupted"}
    /\ ExportIfTurns("export_metrics_on_exit")
    /\ entry_pc' = "exited"
    /\ UNCHANGED <<varsCalc, varsQueue, varsMinimal, varsStartup>>

OnUserSpeechStart ==
    /\ SessionLive
    /\ speech_calls < MaxSpeech
    /\ metrics_collector' = on_user_speech_start(metrics_collector, now)
    /\ last' = Last("on_user_speech_start", metrics_collector, NoExport)
    /\ speech_calls' = speech_calls + 1
    /\ UNCHANGED <<now, entry_pc, fs, exchanges>>
    /\ UNCHANGED <<varsCalc, varsQueue, varsMinimal, varsStartup>>

OnUserSpeechEnd ==
    /\ SessionLive
    /\ speech_calls < MaxSpeech
    /\ \E transcript \in Texts :
           metrics_collector' = on_user_speech_end(metrics_collector, now, transcript)
    /\ last' = Last("on_user_speech_end", metrics_collector, NoExport)
    /\ speech_calls' = speech_calls + 1
    /\ UNCHANGED <<now, entry_pc, fs, exchanges>>
    /\ UNCHANGED <<varsCalc, varsQueue, varsMinimal, varsStartup>>

\* How many generate_response calls have ended in the except branch.
Errors(m) ==
    Cardinality({k \in 1 .. Len(m.events_log) : m.events_log[k].event = "error"})

\* generate_response from entry to return; the clock moves over its sleeps.
\* exchanges gets the turn of a call that returned its reply.
GenerateResponse ==
    /\ SessionLive
    /\ Len(exchanges) + Errors(metrics_collector) < MaxResponses
    /\ \E user_input \in Inputs, fault \in ResponseFaults :
           LET r == generate_response(metrics_collector, now, user_input, fault)
           IN  /\ metrics_collector' = r.collector
               /\ now' = r.end
               /\ exchanges' = IF fault = "none"
                               THEN Append(exchanges, r.collector.current_turn)
                               ELSE exchanges
               /\ last' = [Last("generate_response", metrics_collector, NoExport)
                              EXCEPT !.response =
                                  [ret |-> r.ret, fault |-> fault, raised |-> r.raised,
                                   at_failure |-> r.at_failure]]
    /\ UNCHANGED <<entry_pc, fs, speech_calls>>
    /\ UNCHANGED <<varsCalc, varsQueue, varsMinimal, varsStartup>>

NextMetrics ==
    \/ Tick
    \/ EntrypointStart
    \/ EntrypointGreeting
    \/ EntrypointError
    \/ EntrypointFinally
    \/ OnUserSpeechStart
    \/ OnUserSpeechEnd
    \/ GenerateResponse

\* The end of the process: a session whose turns come from the greeting and
\* from generate_response, with no time passing between its callbacks, then
\* the exports of the interrupt handler and the exit hook.
NextShutdown ==
    \/ EntrypointStart
    \/ EntrypointGreeting
    \/ EntrypointError
    \/ EntrypointFinally
    \/ OnUserSpeechEnd
    \/ GenerateResponse
    \/ KeyboardInterruptExport
    \/ ExportMetricsOnExit

\* ------------------------------------------------- agent.py: metrics queue
\* pd.read_excel(filename) / new_df.to_excel(filename): the output file is
\* absent, or holds rows.
NoFile == [exists |-> FALSE, rows |-> << >>]

\* Assistant.reset_timers: no start time, no utterance, nothing measured.
NoStart == 0

NotMeasured == -1

reset_timers(self) ==
    [self EXCEPT !.start_time = NoStart,
                 !.user_utterance = "",
                 !.ttft = NotMeasured,
                 !.ttfb = NotMeasured]

\* Assistant.__init__: the timer fields are created by reset_timers().
Assistant ==
    [start_time |-> NoStart, user_utterance |-> "", ttft |-> NotMeasured,
     ttfb |-> NotMeasured]

\* Assistant._on_user_speech
on_user_speech(self, t, text) ==
    [self EXCEPT !.start_time = t, !.user_utterance = text]

\* Assistant._on_llm_started
on_llm_started(self, t) ==
    IF self.start_time > 0 THEN [self EXCEPT !.ttft = t - self.start_time] ELSE self

\* Assistant._on_tts_started
on_tts_started(self, t) ==
    IF self.start_time > 0 THEN [self EXCEPT !.ttfb = t - self.start_time] ELSE self

\* round(x * 1000) if x > 0 else "N/A", for x in units of 10 ms.
Millis(x) == IF x > 0 THEN Num(x * 10) ELSE NA

\* The record Assistant._on_llm_finished builds.  Its "Timestamp" column is
\* left out; serial is the number of the put that carried the record.
Record(n, self, full_text) ==
    [serial |-> n,
     user_utterance |-> self.user_utterance,
     agent_response |-> full_text,
     ttft_ms |-> Millis(self.ttft),
     ttfb_ms |-> Millis(self.ttfb)]

\* Assistant._on_llm_finished: the record put and the timers afterwards.
on_llm_finished_without_reset(self, n, full_text) ==
    [record |-> Record(n, self, full_text), assistant |-> self]

on_llm_finished(self, n, full_text) ==
    [record |-> Record(n, self, full_text), assistant |-> reset_timers(self)]

\* The utterances and the reply the events carry.
Utterances == {"hi", "yo"}

FullText == "ok"

\* The record of an exchange in which the Assistant heard nothing.
IdleRecord(n) == Record(n, Assistant, FullText)

\* An event of the Assistant, as kept in assistant_events.
Event(kind, text) == [kind |-> kind, text |-> text]

AssistantInit ==
    /\ assistant = Assistant
    /\ clock = 1
    /\ assistant_events = << >>

\* The lines of run_metrics_writer after its loop: nothing is written when
\* records is empty; otherwise the file's rows, if any, followed by records.
save_records(file, recs) ==
    IF recs # << >>
    THEN [exists |-> TRUE, rows |-> file.rows \o recs]
    ELSE file

\* Where an exception thrown into run_metrics_writer at position pc is
\* handled.  "get" is the try body (metrics_queue.get, records.append, print),
\* whose CancelledError the loop catches and breaks on; "sleep" is the
\* `await asyncio.sleep(0.1)` inside the `except Exception` handler, where no
\* clause of that try statement applies any more.
cancelled_at(pc) == IF pc = "get" THEN "break" ELSE "propagate"

\* The queue variant at rest, for the specifications of the other variants.
QueueIdle ==
    /\ metrics_queue = << >>
    /\ records = << >>
    /\ writer_pc = "get"
    /\ main_pc = "loop"
    /\ runner_done = FALSE
    /\ output_file = NoFile
    /\ prior_file = NoFile
    /\ put_count = 0
    /\ put_before_cancel = << >>
    /\ put_while_waiting = {}
    /\ AssistantInit

\* How the queue variant is run.  The __main__ block defines main() and then
\* runs the worker through cli.run() without calling it: main is "not_called"
\* and the writer task is never created.  The other start is main() run as a
\* coroutine, after it has created the writer task and the runner.
QueueStarts ==
    {[main |-> "not_called", writer |-> "not_created"],
     [main |-> "loop", writer |-> "get"]}

QueueInit ==
    /\ metrics_queue = << >>
    /\ records = << >>
    /\ \E start \in QueueStarts :
           /\ main_pc = start.main
           /\ writer_pc = start.writer
    /\ runner_done = FALSE
    /\ output_file \in {NoFile, [exists |-> TRUE, rows |-> <<IdleRecord(0)>>]}
    /\ prior_file = output_file
    /\ put_count = 0
    /\ put_before_cancel = << >>
    /\ put_while_waiting = {}
    /\ AssistantInit

\* Assistant._on_llm_finished in a job of the worker: one record is put and
\* the timers are reset.
OnLlmFinished ==
    /\ ~runner_done
    /\ put_count < MaxPuts
    /\ put_count' = put_count + 1
    /\ LET r == on_llm_finished(assistant, put_count + 1, FullText)
       IN  /\ metrics_queue' = Append(metrics_queue, r.record)
           /\ put_before_cancel' = IF main_pc = "loop"
                                   THEN Append(put_before_cancel, r.record)
                                   ELSE put_before_cancel
           /\ assistant' = r.assistant
    /\ put_while_waiting' = IF writer_pc = "sleep"
                            THEN put_while_waiting \cup {put_count + 1}
                            ELSE put_while_waiting
    /\ assistant_events' =
           Append(assistant_events, Event("llm_stream_finished", FullText))
    /\ UNCHANGED <<records, writer_pc, main_pc, runner_done, output_file, prior_file,
                   clock>>
    /\ UNCHANGED <<varsCalc, varsMetrics, varsMinimal, varsStartup>>

\* How many events other than 'LLM stream finished' the Assistant has handled.
Heard ==
    Cardinality({k \in 1 .. Len(assistant_events) :
                    assistant_events[k].kind # "llm_stream_finished"})

\* Assistant._on_user_speech on a 'user speech finalized' event.
OnUserSpeech ==
    /\ ~runner_done
    /\ Heard < MaxHeard
    /\ \E text \in Utterances :
           /\ assistant' = on_user_speech(assistant, clock, text)
           /\ assistant_events' =
                  Append(assistant_events, Event("user_speech_final", text))
    /\ UNCHANGED <<metrics_queue, records, writer_pc, main_pc, runner_done,
                   output_file, prior_file, put_count, put_before_cancel,
                   put_while_waiting, clock>>
    /\ UNCHANGED <<varsCalc, varsMetrics, varsMinimal, varsStartup>>

\* Assistant._on_llm_started on an 'LLM stream started' event.
OnLlmStarted ==
    /\ ~runner_done
    /\ Heard < MaxHeard
    /\ assistant' = on_llm_started(assistant, clock)
    /\ assistant_events' = Append(assistant_events, Event("llm_stream_started", ""))
    /\ UNCHANGED <<metrics_queue, records, writer_pc, main_pc, runner_done,
                   output_file, prior_file, put_count, put_before_cancel,
                   put_while_waiting, clock>>
    /\ UNCHANGED <<varsCalc, varsMetrics, varsMinimal, varsStartup>>

\* Assistant._on_tts_started on a 'TTS stream started' event.
OnTtsStarted ==
    /\ ~runner_done
    /\ Heard < MaxHeard
    /\ assistant' = on_tts_started(assistant, clock)
    /\ assistant_events' = Append(assistant_events, Event("tts_stream_started", ""))
    /\ UNCHANGED <<metrics_queue, records, writer_pc, main_pc, runner_done,
                   output_file, prior_file, put_count, put_before_cancel,
                   put_while_waiting, clock>>
    /\ UNCHANGED <<varsCalc, varsMetrics, varsMinimal, varsStartup>>

\* time.time() reads the wall clock, which moves on between two events and
\* can be set back.
ClockChanges ==
    /\ ~runner_done
    /\ \E t \in 1 .. MaxClock : t # clock /\ clock' = t
    /\ UNCHANGED <<metrics_queue, records, writer_pc, main_pc, runner_done,
                   output_file, prior_file, put_count, put_before_cancel,
                   put_while_waiting, assistant, assistant_events>>
    /\ UNCHANGED <<varsCalc, varsMetrics, varsMinimal, varsStartup>>

\* run_metrics_writer: metrics_queue.get(block=False) returns a record.
WriterGet ==
    /\ writer_pc = "get"
    /\ metrics_queue # << >>
    /\ records' = Append(records, Head(metrics_queue))
    /\ metrics_queue' = Tail(metrics_queue)
    /\ UNCHANGED <<writer_pc, main_pc, runner_done, output_file, prior_file,
                   put_count, put_before_cancel,
                   put_while_waiting>>
    /\ UNCHANGED <<varsCalc, varsMetrics, varsMinimal, varsStartup, varsAssistant>>

\* run_metrics_writer: the queue is empty, get raises Empty and the task
\* starts to wait in the handler.
WriterEmpty ==
    /\ writer_pc = "get"
    /\ metrics_queue = << >>
    /\ writer_pc' = "sleep"
    /\ UNCHANGED <<metrics_queue, records, main_pc, runner_done, output_file,
                   prior_file, put_count, put_before_cancel,
                   put_while_waiting>>
    /\ UNCHANGED <<varsCalc, varsMetrics, varsMinimal, varsStartup, varsAssistant>>

\* run_metrics_writer: the sleep ends and the loop polls again.
WriterWakeStops ==
    /\ writer_pc = "sleep"
    /\ main_pc # "await"
    /\ writer_pc' = "done"
    /\ UNCHANGED <<metrics_queue, records, main_pc, runner_done, output_file,
                   prior_file, put_count, put_before_cancel,
                   put_while_waiting>>
    /\ UNCHANGED <<varsCalc, varsMetrics, varsMinimal, varsStartup, varsAssistant>>

WriterWake ==
    /\ writer_pc = "sleep"
    /\ main_pc # "await"
    /\ writer_pc' = "get"
    /\ UNCHANGED <<metrics_queue, records, main_pc, runner_done, output_file,
                   prior_file, put_count, put_before_cancel,
                   put_while_waiting>>
    /\ UNCHANGED <<varsCalc, varsMetrics, varsMinimal, varsStartup, varsAssistant>>

\* __main__: agents.cli.AppCLI(worker_opts) or cli.run() raises before the
\* worker runs; the except clause prints the error and the script ends.
CliError ==
    /\ main_pc = "not_called"
    /\ ~runner_done
    /\ put_count = 0
    /\ main_pc' = "cli_error"
    /\ runner_done' = TRUE
    /\ UNCHANGED <<metrics_queue, records, writer_pc, output_file, prior_file,
                   put_count, put_before_cancel,
                   put_while_waiting>>
    /\ UNCHANGED <<varsCalc, varsMetrics, varsMinimal, varsStartup, varsAssistant>>

\* The worker's run ends (worker.run() under main, cli.run() in the script).
RunnerDone ==
    /\ ~runner_done
    /\ runner_done' = TRUE
    /\ UNCHANGED <<metrics_queue, records, writer_pc, main_pc, output_file,
                   prior_file, put_count, put_before_cancel,
                   put_while_waiting>>
    /\ UNCHANGED <<varsCalc, varsMetrics, varsMinimal, varsStartup, varsAssistant>>

\* main: the loop sees runner.done() and calls writer_task.cancel().  main runs
\* only while the writer, a task of the same event loop, is suspended.
MainCancel ==
    /\ main_pc = "loop"
    /\ runner_done
    /\ writer_pc = "sleep"
    /\ main_pc' = "await"
    /\ UNCHANGED <<metrics_queue, records, writer_pc, runner_done, output_file,
                   prior_file, put_count, put_before_cancel,
                   put_while_waiting>>
    /\ UNCHANGED <<varsCalc, varsMetrics, varsMinimal, varsStartup, varsAssistant>>

\* The event loop throws CancelledError into run_metrics_writer where it is
\* suspended: the loop breaks and the records are saved, or the exception
\* leaves the coroutine and nothing is saved.
WriterCancelled ==
    /\ main_pc = "await"
    /\ writer_pc \in {"get", "sleep"}
    /\ IF cancelled_at(writer_pc) = "break"
       THEN /\ output_file' = save_records(output_file, records)
            /\ writer_pc' = "done"
       ELSE /\ output_file' = output_file
            /\ writer_pc' = "cancelled"
    /\ UNCHANGED <<metrics_queue, records, main_pc, runner_done, prior_file,
                   put_count, put_before_cancel,
                   put_while_waiting>>
    /\ UNCHANGED <<varsCalc, varsMetrics, varsMinimal, varsStartup, varsAssistant>>

\* main: `await writer_task` returns, or raises the task's CancelledError.
MainAwait ==
    /\ main_pc = "await"
    /\ writer_pc \in {"done", "cancelled"}
    /\ main_pc' = IF writer_pc = "done" THEN "returned" ELSE "raised"
    /\ UNCHANGED <<metrics_queue, records, writer_pc, runner_done, output_file,
                   prior_file, put_count, put_before_cancel,
                   put_while_waiting>>
    /\ UNCHANGED <<varsCalc, varsMetrics, varsMinimal, varsStartup, varsAssistant>>

\* The Assistant of one job: its events in any order.
NextAssistant ==
    \/ OnUserSpeech
    \/ OnLlmStarted
    \/ OnTtsStarted
    \/ ClockChanges
    \/ OnLlmFinished

NextQueue ==
    \/ OnLlmFinished
    \/ WriterGet
    \/ WriterEmpty
    \/ WriterWake
    \/ CliError
    \/ RunnerDone
    \/ MainCancel
    \/ WriterCancelled
    \/ MainAwait

\* --------------------------------------------- a5.py: transcription tasks
Participants == {"alice", "bob"}

TrackKinds == {"audio", "video"}

\* The task asyncio.create_task(transcribe_audio(stt, audio_stream, identity))
\* returns.  pc is where the coroutine is: "created" (not run yet),
\* "streaming" (suspended in `async for event in stt.stream(...)`) or "done".
\* outcome is how it ended: "returned" (the stream ended), "cancel_caught"
\* and "error_caught" (an except clause ran and the coroutine returned), or
\* "cancelled" (CancelledError left the coroutine).
NewTask(participant_name) ==
    [participant  |-> participant_name,
     pc           |-> "created",
     cancel_called |-> FALSE,
     outcome      |-> "none"]

\* task.cancel(): requests the cancellation of a task that is not done; a
\* done task is left as it is.
cancel(task) ==
    IF task.pc # "done" THEN [task EXCEPT !.cancel_called = TRUE] ELSE task

\* del d[key]
DictDel(d, key) == [k \in DOMAIN d \ {key} |-> d[k]]

NoEvent == [kind |-> "none", participant |-> ""]

MinimalInit ==
    /\ transcription_tasks = [k \in {} |-> 0]
    /\ tasks = << >>
    /\ room_connected = TRUE
    /\ minimal_pc = "loop"
    /\ last_event = NoEvent

\* Room events reach the handlers while the agent is in the room.
InRoom == minimal_pc = "loop" /\ room_connected

\* on_track_subscribed: an audio track starts a task and stores it under the
\* participant's identity, whatever was stored there.
OnTrackSubscribed ==
    /\ InRoom
    /\ \E participant \in Participants, kind \in TrackKinds :
           /\ kind = "audio" => Len(tasks) < MaxTasks
           /\ IF kind = "audio"
              THEN /\ tasks' = Append(tasks, NewTask(participant))
                   /\ transcription_tasks' =
                          DictSet(transcription_tasks, participant, Len(tasks) + 1)
              ELSE UNCHANGED <<tasks, transcription_tasks>>
           /\ last_event' = [kind |-> "track_subscribed",
                             participant |-> participant]
    /\ UNCHANGED <<room_connected, minimal_pc>>
    /\ UNCHANGED <<varsCalc, varsMetrics, varsQueue, varsStartup>>

\* The body shared by on_track_unsubscribed and on_participant_disconnected:
\* cancel and delete the task stored under the identity, if there is one.
cancel_registered(participant) ==
    IF participant \in DOMAIN transcription_tasks
    THEN /\ tasks' = [tasks EXCEPT ![transcription_tasks[participant]] = cancel(@)]
         /\ transcription_tasks' = DictDel(transcription_tasks, participant)
    ELSE UNCHANGED <<tasks, transcription_tasks>>

\* on_track_unsubscribed, for a track of any kind.
OnTrackUnsubscribed ==
    /\ InRoom
    /\ \E participant \in Participants, kind \in TrackKinds :
           /\ cancel_registered(participant)
           /\ last_event' = [kind |-> "track_unsubscribed",
                             participant |-> participant]
    /\ UNCHANGED <<room_connected, minimal_pc>>
    /\ UNCHANGED <<varsCalc, varsMetrics, varsQueue, varsStartup>>

\* on_participant_disconnected.
OnParticipantDisconnected ==
    /\ InRoom
    /\ \E participant \in Participants :
           /\ cancel_registered(participant)
           /\ last_event' = [kind |-> "participant_disconnected",
                             participant |-> participant]
    /\ UNCHANGED <<room_connected, minimal_pc>>
    /\ UNCHANGED <<varsCalc, varsMetrics, varsQueue, varsStartup>>

\* One step of the task at position i that leaves it as the record t.
TaskStep(i, t) ==
    /\ tasks' = [tasks EXCEPT ![i] = t]
    /\ UNCHANGED <<transcription_tasks, room_connected, minimal_pc, last_event>>
    /\ UNCHANGED <<varsCalc, varsMetrics, varsQueue, varsStartup>>

\* The event loop runs a new task for the first time: transcribe_audio enters
\* its try block and suspends in the stream.  With a cancellation pending the
\* CancelledError is thrown into the coroutine before its first statement, so
\* no except clause of its body applies.
TaskStart ==
    \E i \in 1 .. Len(tasks) :
        /\ tasks[i].pc = "created"
        /\ IF tasks[i].cancel_called
           THEN TaskStep(i, [tasks[i] EXCEPT !.pc = "done", !.outcome = "cancelled"])
           ELSE TaskStep(i, [tasks[i] EXCEPT !.pc = "streaming"])

\* transcribe_audio: CancelledError arrives in the stream and is caught.
TaskCancelDelivered ==
    \E i \in 1 .. Len(tasks) :
        /\ tasks[i].pc = "streaming"
        /\ tasks[i].cancel_called
        /\ TaskStep(i, [tasks[i] EXCEPT !.pc = "done", !.outcome = "cancel_caught"])

\* transcribe_audio: the stream raises and `except Exception` catches it.
TaskStreamErrorPropagates ==
    \E i \in 1 .. Len(tasks) :
        /\ tasks[i].pc = "streaming"
        /\ ~tasks[i].cancel_called
        /\ tasks' = [tasks EXCEPT ![i] = [@ EXCEPT !.pc = "done", !.outcome = "error_raised"]]
        /\ minimal_pc' = "raised"
        /\ UNCHANGED <<transcription_tasks, room_connected, last_event>>
        /\ UNCHANGED <<varsCalc, varsMetrics, varsQueue, varsStartup>>

TaskStreamError ==
    \E i \in 1 .. Len(tasks) :
        /\ tasks[i].pc = "streaming"
        /\ ~tasks[i].cancel_called
        /\ TaskStep(i, [tasks[i] EXCEPT !.pc = "done", !.outcome = "error_caught"])

\* transcribe_audio: the stream ends and the coroutine returns.
TaskStreamEnds ==
    \E i \in 1 .. Len(tasks) :
        /\ tasks[i].pc = "streaming"
        /\ ~tasks[i].cancel_called
        /\ TaskStep(i, [tasks[i] EXCEPT !.pc = "done", !.outcome = "returned"])

\* The room connection is lost or closed.
RoomDisconnects ==
    /\ room_connected
    /\ room_connected' = FALSE
    /\ UNCHANGED <<transcription_tasks, tasks, minimal_pc, last_event>>
    /\ UNCHANGED <<varsCalc, varsMetrics, varsQueue, varsStartup>>

\* entrypoint: the `while ... CONN_CONNECTED` loop ends and entrypoint returns.
MinimalReturn ==
    /\ minimal_pc = "loop"
    /\ ~room_connected
    /\ minimal_pc' = "returned"
    /\ UNCHANGED <<transcription_tasks, tasks, room_connected, last_event>>
    /\ UNCHANGED <<varsCalc, varsMetrics, varsQueue, varsStartup>>

NextMinimal ==
    \/ OnTrackSubscribed
    \/ OnTrackUnsubscribed
    \/ OnParticipantDisconnected
    \/ TaskStart
    \/ TaskCancelDelivered
    \/ TaskStreamError
    \/ TaskStreamEnds
    \/ RoomDisconnects
    \/ MinimalReturn

\* ------------------------------------------------- startup of a variant
Variants == {"minimal", "metrics", "queue"}

EnvVars ==
    {"LIVEKIT_URL", "LIVEKIT_API_KEY", "LIVEKIT_API_SECRET",
     "DEEPGRAM_API_KEY", "GROQ_API_KEY", "CARTESIA_API_KEY"}

\* What os.getenv returns: None (<< >>), the empty string or a value.
EnvValues == {<< >>, <<"">>, <<"key">>}

\* Python `not v` for an Optional[str].
Falsy(v) == v = << >> \/ v = <<"">>

ExitStatus == 1

Exited(status) == [pc |-> "exited", status |-> status, warned |-> FALSE]

\* The worker is run; warned says whether the Deepgram warning was logged.
WorkerRun(warned) == [pc |-> "worker", status |-> None, warned |-> warned]

\* a5.py, __main__: the result of load_dotenv() is not looked at.
required_vars == <<"LIVEKIT_URL", "LIVEKIT_API_KEY", "LIVEKIT_API_SECRET">>

a5_main(env) ==
    LET missing_vars == SelectSeq(required_vars, LAMBDA var : Falsy(env[var]))
    IN  IF missing_vars # << >>
        THEN Exited(ExitStatus)
        ELSE WorkerRun(Falsy(env["DEEPGRAM_API_KEY"]))

\* agent-with-metrics.py and agent.py, module level and __main__:
\* `if not load_dotenv(): sys.exit(1)`, then `if not all([...]): sys.exit(1)`.
module_startup_without_dotenv_check(dotenv_loaded, env) ==
    IF \E var \in EnvVars : Falsy(env[var])
    THEN Exited(ExitStatus)
    ELSE WorkerRun(FALSE)

module_startup(dotenv_loaded, env) ==
    IF ~dotenv_loaded
    THEN Exited(ExitStatus)
    ELSE IF \E var \in EnvVars : Falsy(env[var])
         THEN Exited(ExitStatus)
         ELSE WorkerRun(FALSE)

\* No variant is being started (the state of the other specifications).
StartupIdle ==
    startup = [variant |-> "none", dotenv_loaded |-> FALSE,
               env |-> [var \in EnvVars |-> << >>],
               pc |-> "import", status |-> None, warned |-> FALSE]

\* A variant is started in an environment, with or without a loadable .env.
StartupInit ==
    \E variant \in Variants, dotenv_loaded \in BOOLEAN, env \in [EnvVars -> EnvValues] :
        startup = [variant |-> variant, dotenv_loaded |-> dotenv_loaded,
                   env |-> env,
                   pc |-> "import", status |-> None, warned |-> FALSE]

\* The start of the script, to exit() or to the call that runs the worker.
Started(result) ==
    /\ startup' = [startup EXCEPT !.pc = result.pc, !.status = result.status,
                                  !.warned = result.warned]
    /\ UNCHANGED <<varsCalc, varsMetrics, varsQueue, varsMinimal>>

MinimalStartup ==
    /\ startup.variant = "minimal"
    /\ startup.pc = "import"
    /\ Started(a5_main(startup.env))

MetricsStartup ==
    /\ startup.variant = "metrics"
    /\ startup.pc = "import"
    /\ Started(module_startup(startup.dotenv_loaded, startup.env))

QueueStartup ==
    /\ startup.variant = "queue"
    /\ startup.pc = "import"
    /\ Started(module_startup(startup.dotenv_loaded, startup.env))

NextStartup ==
    \/ MinimalStartup
    \/ MetricsStartup
    \/ QueueStartup

\* ------------------------------------------------------------- SpecCalc
\* calc_result before calculate_metrics has been called.
NotCalled == [called |-> FALSE, metrics |-> EmptyDict]

Stamps == {None} \cup (0 .. MaxStamp)

\* The turns calculate_metrics is applied to: every combination of unset and
\* set values of the nine timestamps it reads.
CalcTurns(S) ==
    { [TurnMetrics(1, 0) EXCEPT
          !.user_speech_start = f[1], !.user_speech_end = f[2],
          !.llm_processing_start = f[3], !.llm_first_token = f[4],
          !.llm_processing_end = f[5], !.tts_start = f[6],
          !.tts_first_byte = f[7], !.tts_end = f[8],
          !.audio_playback_start = f[9]] : f \in [1 .. 9 -> S] }

CalcInit ==
    /\ calc_turn = TurnMetrics(1, 0)
    /\ calc_result = NotCalled

InitCalc ==
    /\ calc_turn \in CalcTurns(Stamps)
    /\ calc_result = NotCalled
    /\ MetricsInit
    /\ QueueIdle
    /\ MinimalInit
    /\ StartupIdle

CalculateMetrics ==
    /\ ~calc_result.called
    /\ calc_result' = [called |-> TRUE, metrics |-> calculate_metrics(calc_turn)]
    /\ UNCHANGED calc_turn
    /\ UNCHANGED <<varsMetrics, varsQueue, varsMinimal, varsStartup>>

NextCalc == CalculateMetrics

SpecCalc == InitCalc /\ [][NextCalc]_vars

InitMetrics == MetricsInit /\ CalcInit /\ QueueIdle /\ MinimalInit /\ StartupIdle

SpecMetrics == InitMetrics /\ [][NextMetrics]_vars

SpecShutdown == InitMetrics /\ [][NextShutdown]_vars

InitQueue == QueueInit /\ CalcInit /\ MetricsInit /\ MinimalInit /\ StartupIdle

SpecQueue == InitQueue /\ [][NextQueue]_vars

InitAssistant == QueueIdle /\ CalcInit /\ MetricsInit /\ MinimalInit /\ StartupIdle

SpecAssistant == InitAssistant /\ [][NextAssistant]_vars

InitMinimal == MinimalInit /\ CalcInit /\ MetricsInit /\ QueueIdle /\ StartupIdle

SpecMinimal == InitMinimal /\ [][NextMinimal]_vars

InitStartup == StartupInit /\ CalcInit /\ MetricsInit /\ QueueIdle /\ MinimalInit

SpecStartup == InitStartup /\ [][NextStartup]_vars

\* The event loop runs the writer task whenever it can take a step: a poll
\* that finds a record, a poll that finds none, the end of a wait.
SpecQueueFair ==
    /\ SpecQueue
    /\ WF_vars(WriterGet)
    /\ WF_vars(WriterEmpty)
    /\ WF_vars(WriterWake)

\* ---------------------------------------------------------------- claims
\* The metric names and, for each, the two timestamps it needs (later, earlier).
MetricPairs ==
    [eou_delay            |-> <<"llm_processing_start", "user_speech_end">>,
     ttft                 |-> <<"llm_first_token", "llm_processing_start">>,
     ttfb                 |-> <<"tts_first_byte", "tts_start">>,
     total_latency        |-> <<"audio_playback_start", "user_speech_end">>,
     llm_processing_time  |-> <<"llm_processing_end", "llm_processing_start">>,
     tts_processing_time  |-> <<"tts_end", "tts_start">>,
     user_speech_duration |-> <<"user_speech_end", "user_speech_start">>]

BothSet(t, k) == t[MetricPairs[k][1]] # None /\ t[MetricPairs[k][2]] # None

Expected(t, k) == (t[MetricPairs[k][1]] - t[MetricPairs[k][2]]) * 1000

\* C7 (as claimed): for every turn and every timestamp value, 0 included,
\* calculate_metrics has the key eou_delay exactly when user_speech_end and
\* llm_processing_start are both set, and its value is then
\* (llm_processing_start - user_speech_end) * 1000.
C7_EouDelayIffBothSet ==
    calc_result.called =>
        /\ ("eou_delay" \in DOMAIN calc_result.metrics) <=> BothSet(calc_turn, "eou_delay")
        /\ "eou_delay" \in DOMAIN calc_result.metrics =>
               calc_result.metrics["eou_delay"] = Expected(calc_turn, "eou_delay")

\* C8 (as claimed): for every turn the key set of calculate_metrics is exactly
\* the set of metrics whose two timestamps are both set, each with the value
\* (later - earlier) * 1000, and no other key is present.
C8_KeySetExactlyComputable ==
    calc_result.called =>
        /\ DOMAIN calc_result.metrics = {k \in DOMAIN MetricPairs : BothSet(calc_turn, k)}
        /\ \A k \in DOMAIN calc_result.metrics :
               calc_result.metrics[k] = Expected(calc_turn, k)

\* C1 (as claimed): when the draining task has ended after its cancellation,
\* the output file holds, after the rows it already had, exactly the records
\* put on the queue before the cancellation, each once and in order.
C1_ExportHoldsExactlyThePutRecords ==
    writer_pc \in {"done", "cancelled"} =>
        output_file.rows = prior_file.rows \o put_before_cancel

\* C2 (as claimed): when run_metrics_writer has ended after its cancellation,
\* every record it had dequeued into its list is in the output file.
C2_DequeuedRecordsAreFlushed ==
    writer_pc \in {"done", "cancelled"} =>
        \A i \in 1 .. Len(records) :
            \E j \in 1 .. Len(output_file.rows) : output_file.rows[j] = records[i]

\* C3 (as claimed): a timestamp field of a turn that is set is never assigned
\* another value by any later step.
C3_TimestampsSetOnce ==
    [][\A i \in 1 .. Len(metrics_collector.turns) : \A f \in StampFields :
          metrics_collector.turns[i][f] # None =>
              metrics_collector'.turns[i][f] = metrics_collector.turns[i][f]]_vars

\* C4 (as claimed): a turn for which generate_response has returned is not
\* modified by any later step, and the exchanges completed so far occupy as
\* many distinct turns as there are exchanges.
C4_TurnClosedAfterResponse ==
    [][/\ \A k \in 1 .. Len(exchanges) :
              metrics_collector'.turns[exchanges[k]] =
                  metrics_collector.turns[exchanges[k]]
       /\ Cardinality({exchanges'[k] : k \in 1 .. Len(exchanges')}) =
              Len(exchanges')]_vars

FieldSetOps == {"on_user_speech_start", "on_user_speech_end", "generate_response"}

\* C5 (as claimed): every field-set operation invoked with no current turn
\* creates exactly one new turn, which becomes the current turn and has its
\* field set; one invoked with a current turn creates none.
C5_EveryFieldSetCreatesTurn ==
    last.op \in FieldSetOps =>
        IF last.had_turn
        THEN Len(metrics_collector.turns) = last.n_turns
        ELSE /\ Len(metrics_collector.turns) = last.n_turns + 1
             /\ metrics_collector.current_turn = Len(metrics_collector.turns)

\* C5 (amended): on_user_speech_start and generate_response invoked with no
\* current turn create exactly one new turn, make it the current turn and set
\* their field on it; on_user_speech_end invoked with no current turn creates
\* no turn and leaves the collector without a current turn; a field-set
\* operation invoked with a current turn creates no turn.
C5_LazyTurnCreation ==
    LET m == metrics_collector
        c == m.current_turn
    IN  /\ (last.op \in {"on_user_speech_start", "generate_response"}
               /\ ~last.had_turn) =>
               /\ Len(m.turns) = last.n_turns + 1
               /\ c = Len(m.turns)
               /\ m.turns[c].turn_id = m.turn_counter
               /\ last.op = "on_user_speech_start" =>
                      m.turns[c].user_speech_start # None
               /\ last.op = "generate_response" =>
                      m.turns[c].llm_processing_start # None
        /\ (last.op = "on_user_speech_end" /\ ~last.had_turn) =>
               /\ Len(m.turns) = last.n_turns
               /\ c = NoTurn
        /\ (last.op \in FieldSetOps /\ last.had_turn) =>
               /\ Len(m.turns) = last.n_turns
               /\ c # NoTurn

\* C5 witness: before the greeting, a first speech callback found no current
\* turn and created turn 1, and on_user_speech_end then ran on that turn.
C5_Witness ==
    /\ last.op = "on_user_speech_end"
    /\ last.had_turn
    /\ entry_pc = "session"
    /\ Len(metrics_collector.turns) = 1
    /\ metrics_collector.turns[1].user_speech_start # None
    /\ metrics_collector.turns[1].user_speech_end # None

\* C6: the turn identifiers in turns are 1, 2, ..., n in order, and n is the
\* turn counter.
C6_TurnIdsAreOneToN ==
    /\ metrics_collector.turn_counter = Len(metrics_collector.turns)
    /\ \A i \in 1 .. Len(metrics_collector.turns) :
           metrics_collector.turns[i].turn_id = i

\* C6 witness: two turns have been started.
C6_Witness ==
    /\ Len(metrics_collector.turns) = 2
    /\ metrics_collector.turns[2].turn_id = 2

\* The rows export_to_excel builds from the collector's turns.
DetailedRows ==
    [i \in 1 .. Len(metrics_collector.turns) |-> ExportRow(metrics_collector.turns[i])]

CsvFilename == Replace(DefaultFilename(metrics_collector), ".xlsx", ".csv")

\* C9 (as claimed): an export of a collector with zero turns, with no write
\* failing, writes the spreadsheet report with an empty Detailed Metrics
\* section and a Session Info section with turn count 0, and returns its name.
C9_ZeroTurnExportWritesReport ==
    (last.op = "export_to_excel" /\ last.n_turns = 0 /\ last.export.fault = "none") =>
        LET name == DefaultFilename(metrics_collector)
        IN  /\ ~last.export.raised
            /\ last.export.ret = name
            /\ name \in DOMAIN fs
            /\ fs[name].detailed_metrics.rows = << >>
            /\ fs[name].session_info.total_turns = 0

\* C10 (as claimed): when the spreadsheet write fails, the export writes the
\* fallback file with the detailed rows and returns that file's name, and no
\* exception escapes.
C10_FallbackWrittenWhenPrimaryFails ==
    (last.op = "export_to_excel" /\ last.export.failed_at = "xlsx_write") =>
        /\ ~last.export.raised
        /\ last.export.ret = CsvFilename
        /\ CsvFilename \in DOMAIN fs
        /\ fs[CsvFilename].frame.rows = DetailedRows

\* C10 (amended): when the spreadsheet write fails, no exception escapes;
\* if the fallback write succeeds the export has written the fallback file
\* with the detailed rows and returns that file's name, and if the fallback
\* write fails too it returns the empty string.
C10_FallbackUnlessItFailsToo ==
    (last.op = "export_to_excel" /\ last.export.failed_at = "xlsx_write") =>
        /\ ~last.export.raised
        /\ IF last.export.csv_failed
           THEN last.export.ret = << >>
           ELSE /\ last.export.ret = CsvFilename
                /\ last.export.ret # DefaultFilename(metrics_collector)
                /\ CsvFilename \in DOMAIN fs
                /\ fs[CsvFilename].format = "csv"
                /\ fs[CsvFilename].frame.rows = DetailedRows

\* C10 witness: an export of a session with turns whose spreadsheet write
\* failed and which returned the name of the fallback file.
C10_Witness ==
    /\ last.op = "export_to_excel"
    /\ last.export.failed_at = "xlsx_write"
    /\ last.n_turns >= 1
    /\ last.export.ret = CsvFilename
    /\ CsvFilename \in DOMAIN fs


\* C11: export_to_excel never raises.  Whichever step failed, it returned
\* the empty string exactly when the fallback failed as well (its write
\* failed, or the frame it writes was never built), and otherwise the name of
\* a file it wrote: the spreadsheet when no step failed, else the fallback.
C11_ExportNeverRaises ==
    last.op = "export_to_excel" =>
        LET x == last.export
            fallback_failed == x.failed_at # "none"
                                   /\ (x.csv_failed \/ x.failed_at = "rows")
        IN  /\ ~x.raised
            /\ (x.ret = << >>) <=> fallback_failed
            /\ x.ret # << >> =>
                   /\ x.ret \in DOMAIN fs
                   /\ x.ret = IF x.failed_at = "none"
                              THEN DefaultFilename(metrics_collector)
                              ELSE CsvFilename
                   /\ fs[x.ret].format = IF x.failed_at = "none" THEN "xlsx" ELSE "csv"

\* C11 witness: an export of a session with a turn whose spreadsheet write
\* and fallback write both failed, and which returned the empty string.
C11_Witness ==
    /\ last.op = "export_to_excel"
    /\ last.n_turns >= 1
    /\ last.export.failed_at = "xlsx_write"
    /\ last.export.csv_failed
    /\ last.export.ret = << >>
    /\ ~last.export.raised


\* The written spreadsheet of the session, when the export wrote it.
XlsxWritten ==
    /\ last.op = "export_to_excel"
    /\ DefaultFilename(metrics_collector) \in DOMAIN fs

Workbook == fs[DefaultFilename(metrics_collector)]

\* The turns (by position) that have a computed value in a metric column,
\* and the value of one of them.
Computed(col) ==
    {i \in 1 .. Len(metrics_collector.turns) :
        MetricOfColumn[col] \in DOMAIN calculate_metrics(metrics_collector.turns[i])}

ValueOf(i, col) == calculate_metrics(metrics_collector.turns[i])[MetricOfColumn[col]]

RECURSIVE SumOver(_, _)
SumOver(I, col) ==
    IF I = {} THEN 0
    ELSE LET i == CHOOSE x \in I : TRUE
         IN  ValueOf(i, col) + SumOver(I \ {i}, col)

\* The entries of the Summary Statistics section for a column.
SummaryEntries(col) ==
    {k \in 1 .. Len(Workbook.summary_statistics) :
        Workbook.summary_statistics[k].Metric = col}

\* The entry e reports the statistics of the computed values of col.
ReportsComputed(e, col) ==
    /\ e.Count = Cardinality(Computed(col))
    /\ e.Average = [num |-> SumOver(Computed(col), col), den |-> Cardinality(Computed(col))]
    /\ \E i \in Computed(col) : e.Min = ValueOf(i, col)
    /\ \A i \in Computed(col) : e.Min <= ValueOf(i, col)
    /\ \E i \in Computed(col) : e.Max = ValueOf(i, col)
    /\ \A i \in Computed(col) : e.Max >= ValueOf(i, col)

Columns == {numeric_columns[i] : i \in 1 .. Len(numeric_columns)}

\* C12 (as claimed): in the written spreadsheet every metric column has a
\* summary entry whose Count is the number N of turns with a computed value,
\* N = 0 included, and whose Average, Min and Max are taken over those N.
C12_SummaryReportsEveryColumn ==
    XlsxWritten =>
        \A col \in Columns :
            \E k \in SummaryEntries(col) :
                LET e == Workbook.summary_statistics[k]
                IN  /\ e.Count = Cardinality(Computed(col))
                    /\ Computed(col) # {} => ReportsComputed(e, col)

\* C12 (amended): in the written spreadsheet a metric column with N >= 1
\* computed values has exactly one summary entry, with Count = N and Average,
\* Min and Max over exactly those N values (the 'N/A' cells are left out); a
\* column with no computed value has no entry in the summary.
C12_SummaryOverComputedValues ==
    XlsxWritten =>
        \A col \in Columns :
            IF Computed(col) = {}
            THEN SummaryEntries(col) = {}
            ELSE /\ Cardinality(SummaryEntries(col)) = 1
                 /\ \A k \in SummaryEntries(col) :
                        ReportsComputed(Workbook.summary_statistics[k], col)

\* C12 witness: a written spreadsheet of two turns in which one column has two
\* different computed values, one has a computed value and an 'N/A' cell, and
\* one has only 'N/A' cells.
C12_Witness ==
    /\ XlsxWritten
    /\ Len(metrics_collector.turns) = 2
    /\ \E col \in Columns :
           /\ Cardinality(Computed(col)) = 2
           /\ \E k \in SummaryEntries(col) :
                  Workbook.summary_statistics[k].Min < Workbook.summary_statistics[k].Max
    /\ \E col \in Columns : Cardinality(Computed(col)) = 1
    /\ \E col \in Columns : Computed(col) = {}


\* The detailed sections the export wrote: the Detailed Metrics sheet of the
\* spreadsheet and the frame of the fallback file.
DetailedSections ==
    {IF fs[n].format = "xlsx" THEN fs[n].detailed_metrics ELSE fs[n].frame :
        n \in DOMAIN fs}

\* C13: every detailed section the export wrote has exactly one row per turn,
\* in turn order; row i carries the identifier, timestamp, user text and
\* assistant text of turn i and, in each of the seven metric columns, the
\* value calculate_metrics returns for turn i, or 'N/A' when it has none.
C13_OneRowPerTurn ==
    last.op = "export_to_excel" =>
        \A df \in DetailedSections :
            LET turns == metrics_collector.turns
            IN  /\ Len(df.rows) = Len(turns)
                /\ \A i \in 1 .. Len(turns) :
                       LET row == df.rows[i]
                           metrics == calculate_metrics(turns[i])
                       IN  /\ row["Turn ID"] = turns[i].turn_id
                           /\ row["Timestamp"] = turns[i].timestamp
                           /\ row["User Text"] = turns[i].user_text
                           /\ row["Assistant Text"] = turns[i].assistant_text
                           /\ DOMAIN row = {"Turn ID", "Timestamp", "User Text",
                                            "Assistant Text"} \cup Columns
                           /\ \A col \in Columns :
                                  IF MetricOfColumn[col] \in DOMAIN metrics
                                  THEN row[col] = Num(metrics[MetricOfColumn[col]])
                                  ELSE row[col] = NA

\* C13 witness: the export wrote a detailed section of two rows, the first
\* with a user text and a computed user speech duration and no TTFT, the
\* second with the greeting, a computed TTFT and no user speech duration.
C13_Witness ==
    /\ last.op = "export_to_excel"
    /\ \E df \in DetailedSections :
           /\ Len(df.rows) = 2
           /\ df.rows[1]["Turn ID"] = 1
           /\ df.rows[1]["User Text"] = "hi"
           /\ ~df.rows[1]["User Speech Duration (ms)"].na
           /\ df.rows[1]["TTFT (ms)"] = NA
           /\ df.rows[2]["Turn ID"] = 2
           /\ df.rows[2]["Assistant Text"] = GreetingText
           /\ ~df.rows[2]["TTFT (ms)"].na
           /\ df.rows[2]["User Speech Duration (ms)"] = NA


\* C14 (as claimed): whenever the agent worker is run and enqueues records,
\* the metrics-draining task has been started to receive them.
C14_WriterStartedWithWorker ==
    put_count > 0 => writer_pc # "not_created"


\* The writer task is in its drain loop.
Draining == writer_pc \in {"get", "sleep"}

InQueue(r) == \E i \in 1 .. Len(metrics_queue) : metrics_queue[i] = r

Received(r) == \E i \in 1 .. Len(records) : records[i] = r

\* C15: a poll of run_metrics_writer that finds the queue empty changes
\* nothing but the writer's position, which becomes the wait; the wait ends
\* in another poll; while draining, the records accumulated so far stay in
\* place; the writer leaves the drain loop only after writer_task.cancel();
\* and a record in the queue of a draining writer, however many empty polls
\* came before it, is received unless the writer is cancelled first.
C15_EmptyQueueIsWaitedOut ==
    /\ [][Draining =>
             /\ (writer_pc = "get" /\ metrics_queue = << >> /\ writer_pc' # writer_pc) =>
                    /\ writer_pc' = "sleep"
                    /\ records' = records
                    /\ output_file' = output_file
             /\ (writer_pc = "sleep" /\ writer_pc' # writer_pc /\ main_pc # "await") =>
                    writer_pc' = "get"
             /\ Len(records') >= Len(records)
             /\ SubSeq(records', 1, Len(records)) = records
             /\ ~Draining' => main_pc = "await"]_vars
    /\ \A n \in 1 .. MaxPuts :
           (Draining /\ InQueue(IdleRecord(n))) ~> (Received(IdleRecord(n)) \/ main_pc = "await")

\* C15 witness: the writer holds a record that was put while it waited after
\* an empty poll, next to a record it had accumulated before.
C15_Witness ==
    /\ Draining
    /\ main_pc = "loop"
    /\ Len(records) >= 2
    /\ \E n \in put_while_waiting : n >= 2 /\ Received(IdleRecord(n))


CancelEvents == {"track_unsubscribed", "participant_disconnected"}

\* C16 (as claimed): after a participant's disconnect or track unsubscription
\* nothing is registered under the participant's identity, no transcription
\* task of that participant goes on running uncancelled, and every task that
\* was cancelled ends with its cancellation caught inside transcribe_audio.
C16_DisconnectStopsTranscription ==
    /\ last_event.kind \in CancelEvents =>
           /\ last_event.participant \notin DOMAIN transcription_tasks
           /\ \A i \in 1 .. Len(tasks) :
                  tasks[i].participant = last_event.participant =>
                      tasks[i].pc = "done" \/ tasks[i].cancel_called
    /\ \A i \in 1 .. Len(tasks) :
           (tasks[i].cancel_called /\ tasks[i].pc = "done") =>
               tasks[i].outcome = "cancel_caught"

\* C17: a step in which the stream of one transcription task fails ends that
\* task with the error caught inside it and changes nothing else: every other
\* task, the registry and the entrypoint are as before; and the entrypoint is
\* in its loop whenever the room is connected.
C17_StreamErrorIsContained ==
    [][/\ \A i \in 1 .. Len(tasks) :
              (tasks[i].pc = "streaming" /\ tasks'[i].pc = "done"
                   /\ tasks'[i].outcome \notin {"returned", "cancel_caught"}) =>
                  /\ tasks'[i].outcome = "error_caught"
                  /\ \A j \in 1 .. Len(tasks) : j # i => tasks'[j] = tasks[j]
                  /\ Len(tasks') = Len(tasks)
                  /\ transcription_tasks' = transcription_tasks
                  /\ minimal_pc' = minimal_pc
                  /\ room_connected' = room_connected
       /\ room_connected' => minimal_pc' = "loop"]_vars

\* C17 witness: one participant's task has ended on a caught error while
\* another participant's task is still in its stream and the entrypoint is
\* in its loop in the connected room.
C17_Witness ==
    /\ room_connected
    /\ minimal_pc = "loop"
    /\ \E i, j \in 1 .. Len(tasks) :
           /\ tasks[i].participant # tasks[j].participant
           /\ tasks[i].outcome = "error_caught"
           /\ tasks[j].pc = "streaming"
           /\ ~tasks[j].cancel_called


\* C18: a generate_response call whose reply production raised has not
\* propagated the error: it returned the apology, the event log is the log
\* the error found plus one 'error' event, the turns sequence and the turn
\* counter are as the error found them, and the session still takes calls
\* (it is live and has a current turn).
C18_ResponseErrorIsContained ==
    (last.op = "generate_response" /\ last.response.fault # "none") =>
        LET m == metrics_collector
            f == last.response.at_failure
        IN  /\ ~last.response.raised
            /\ last.response.ret = Apology
            /\ Len(m.events_log) = f.n_events + 1
            /\ m.events_log[Len(m.events_log)].event = "error"
            /\ Len(m.turns) = f.n_turns
            /\ m.turn_counter = f.turn_counter
            /\ Len(m.turns) = last.n_turns + (IF last.had_turn THEN 0 ELSE 1)
            /\ m.current_turn = Len(m.turns)
            /\ SessionLive

\* C18 witness: a generate_response call on the greeting's turn failed in its
\* TTS step and returned the apology.
C18_Witness ==
    /\ last.op = "generate_response"
    /\ last.response.fault = "tts"
    /\ metrics_collector.turns[1].tts_start = now
    /\ metrics_collector.turns[1].tts_first_byte = None
    /\ last.response.ret = Apology
    /\ last.had_turn
    /\ entry_pc = "greeted"
    /\ Errors(metrics_collector) = 1


\* The variables the spec names as required for a variant.
RequiredVars(variant) ==
    IF variant = "minimal"
    THEN {"LIVEKIT_URL", "LIVEKIT_API_KEY", "LIVEKIT_API_SECRET"}
    ELSE EnvVars

AllPresent(variant, env) == \A var \in RequiredVars(variant) : ~Falsy(env[var])

\* C19 (as claimed): in every variant the start reaches the run of the worker
\* if and only if every required variable of the variant is present, and
\* otherwise the process exits with a nonzero status.
C19_WorkerIffVariablesPresent ==
    startup.pc # "import" =>
        /\ startup.pc = "worker" <=> AllPresent(startup.variant, startup.env)
        /\ startup.pc # "worker" => (startup.pc = "exited" /\ startup.status # 0)

\* C19 (amended): the minimal variant reaches the run of the worker if and
\* only if its three LiveKit variables are present, whatever DEEPGRAM_API_KEY
\* and the .env file are (a missing DEEPGRAM_API_KEY only logs a warning);
\* the metrics and queue variants reach it if and only if load_dotenv() loaded
\* a .env file and all six variables are present; otherwise the process
\* exits with status 1 before the worker is run.
C19_WorkerIffVariablesAndDotenv ==
    startup.pc # "import" =>
        /\ startup.pc = "worker" <=>
               /\ AllPresent(startup.variant, startup.env)
               /\ startup.variant # "minimal" => startup.dotenv_loaded
        /\ startup.pc # "worker" =>
               /\ startup.pc = "exited"
               /\ startup.status = 1
               /\ ~startup.warned
        /\ startup.pc = "worker" =>
               /\ startup.status = None
               /\ startup.warned <=>
                      /\ startup.variant = "minimal"
                      /\ Falsy(startup.env["DEEPGRAM_API_KEY"])

\* C19 witness: the minimal variant runs its worker without DEEPGRAM_API_KEY
\* and without a .env file, having logged the warning.
C19_Witness ==
    /\ startup.variant = "minimal"
    /\ startup.pc = "worker"
    /\ startup.env["DEEPGRAM_API_KEY"] = << >>
    /\ ~startup.dotenv_loaded
    /\ startup.warned


\* C20: no step makes the turns sequence or the event log shorter; the turns
\* there stay at their positions (a turn is the same object, with the same
\* identifier and creation timestamp, though its fields are filled in) and
\* the events there stay as they are, in the same order.
C20_TurnsAndEventsAppendOnly ==
    [][LET m == metrics_collector
           n == metrics_collector'
       IN  /\ Len(n.turns) >= Len(m.turns)
           /\ \A i \in 1 .. Len(m.turns) :
                  /\ n.turns[i].turn_id = m.turns[i].turn_id
                  /\ n.turns[i].timestamp = m.turns[i].timestamp
           /\ Len(n.events_log) >= Len(m.events_log)
           /\ SubSeq(n.events_log, 1, Len(m.events_log)) = m.events_log]_vars

\* C20 witness: after log_event, start_new_turn, the callbacks and an export
\* have all run, the session has its two turns and all their events.
C20_Witness ==
    /\ last.op = "export_to_excel"
    /\ Len(metrics_collector.turns) = 2
    /\ Len(exchanges) = 1
    /\ speech_calls = 2
    /\ Len(metrics_collector.events_log) >= 10
    /\ metrics_collector.events_log[1].event = "new_turn"


\* The positions in the event log of the 'new_turn' events.
NewTurnEvents(m) ==
    {k \in 1 .. Len(m.events_log) : m.events_log[k].event = "new_turn"}

\* C21: the event log has as many 'new_turn' events as there are turns, which
\* is the turn counter; the payload of the n-th of them is the identifier n
\* of the n-th turn, as text; and a step that adds a turn adds exactly one
\* turn and one 'new_turn' event and makes the new turn the current turn.
C21_OneNewTurnEventPerTurn ==
    LET m == metrics_collector
        E == NewTurnEvents(m)
    IN  /\ Cardinality(E) = Len(m.turns)
        /\ Len(m.turns) = m.turn_counter
        /\ \A k \in E :
               LET n == Cardinality({j \in E : j <= k})
               IN  /\ m.events_log[k].data = <<ToString(n)>>
                   /\ m.turns[n].turn_id = n
                   /\ m.events_log[k].timestamp = m.turns[n].timestamp
        /\ Len(m.turns) <= last.n_turns + 1
        /\ Len(m.turns) = last.n_turns + 1 => m.current_turn = Len(m.turns)

\* C21 witness: start_new_turn has been called twice, once by a callback that
\* found no current turn and once by the greeting.
C21_Witness ==
    /\ Len(metrics_collector.turns) = 2
    /\ Cardinality(NewTurnEvents(metrics_collector)) = 2
    /\ last.op = "greeting"
    /\ metrics_collector.current_turn = 2
    /\ metrics_collector.events_log[Len(metrics_collector.events_log)].data = <<"2">>


\* The positions in assistant_events of the 'LLM stream finished' events.
Finished ==
    {k \in 1 .. Len(assistant_events) :
        assistant_events[k].kind = "llm_stream_finished"}

\* The position of the n-th 'LLM stream finished' event, and of the one before
\* it (0 for the first).
FinishedAt(n) ==
    CHOOSE k \in Finished : Cardinality({j \in Finished : j <= k}) = n

PreviousFinished(n) == IF n = 1 THEN 0 ELSE FinishedAt(n - 1)

\* The positions of the events of the given kind handled since the record
\* before the n-th and before the n-th record itself.
Since(n, kind) ==
    {k \in PreviousFinished(n) + 1 .. FinishedAt(n) - 1 :
        assistant_events[k].kind = kind}

\* The text of the last 'user speech finalized' event before the n-th record
\* and since the one before it; empty if there was none.
LastUtterance(n) ==
    LET S == Since(n, "user_speech_final")
    IN  IF S = {} THEN ""
        ELSE assistant_events[CHOOSE k \in S : \A j \in S : j <= k].text

\* An event of the given kind followed a 'user speech finalized' event, both
\* since the record before the n-th.
FollowedSpeech(n, kind) ==
    \E i \in Since(n, "user_speech_final") : \E j \in Since(n, kind) : i < j

\* C22: the queue holds one record for each 'LLM stream finished' event, in
\* the order of the events; the timers are reset right after such an event;
\* the n-th record carries the text of the last 'user speech finalized' event
\* since the record before it (empty if none), and its time to first token /
\* first audio is 'N/A' unless an 'LLM stream started' / 'TTS stream started'
\* event followed a 'user speech finalized' event since the record before it.
C22_RecordOfItsOwnExchange ==
    /\ put_count = Cardinality(Finished)
    /\ Len(metrics_queue) = put_count
    /\ (assistant_events # << >>
        /\ assistant_events[Len(assistant_events)].kind = "llm_stream_finished")
           => assistant = Assistant
    /\ \A n \in 1 .. Len(metrics_queue) :
           LET record == metrics_queue[n]
           IN  /\ record.serial = n
               /\ record.agent_response = assistant_events[FinishedAt(n)].text
               /\ record.user_utterance = LastUtterance(n)
               /\ ~FollowedSpeech(n, "llm_stream_started") => record.ttft_ms = NA
               /\ ~FollowedSpeech(n, "tts_stream_started") => record.ttfb_ms = NA

\* C22 witness: a first record with an utterance and a measured time to first
\* token is followed by the record of an exchange in which only an utterance
\* was heard: that record has the new utterance and no timings.
C22_Witness ==
    /\ Len(metrics_queue) = 2
    /\ metrics_queue[1].user_utterance = "hi"
    /\ metrics_queue[1].ttft_ms = Num(10)
    /\ metrics_queue[2].user_utterance = "yo"
    /\ metrics_queue[2].ttft_ms = NA
    /\ metrics_queue[2].ttfb_ms = NA
    /\ Since(2, "llm_stream_started") = {}
    /\ assistant = Assistant


\* A task that is running: created or streaming, with no cancellation asked.
Running(i) == tasks[i].pc # "done" /\ ~tasks[i].cancel_called

\* C23 (as claimed): every running transcription task is the task registered
\* in transcription_tasks under its participant's identity, so no participant
\* has two running tasks.
C23_RunningTasksAreRegistered ==
    /\ \A i \in 1 .. Len(tasks) :
           Running(i) =>
               /\ tasks[i].participant \in DOMAIN transcription_tasks
               /\ transcription_tasks[tasks[i].participant] = i
    /\ \A i, j \in 1 .. Len(tasks) :
           (Running(i) /\ Running(j) /\ tasks[i].participant = tasks[j].participant)
               => i = j


\* C24 (as claimed): with a clock that never goes backwards, every metric
\* calculate_metrics returns for a turn of the session is at least 0.
C24_MetricsAreNonNegative ==
    \A i \in 1 .. Len(metrics_collector.turns) :
        LET metrics == calculate_metrics(metrics_collector.turns[i])
        IN  \A key \in DOMAIN metrics : metrics[key] >= 0


\* entrypoint has left its finally block; the interrupt handler has run; the
\* exit hook has run.
AfterSession == {"ended", "interrupted", "exited"}

\* The detailed section of a written file.
DetailedSection(name) ==
    IF fs[name].format = "xlsx" THEN fs[name].detailed_metrics.rows
    ELSE fs[name].frame.rows

\* C25: a step of an export trigger (the finally block of entrypoint, the
\* interrupt handler, the exit hook) leaves the collector as it was: turns and
\* their fields, current_turn, turn_counter and the event log; and after the
\* session, whichever triggers ran and whichever of them failed, every file an
\* export wrote holds the rows computed from the turns of the session.
C25_ExportsLeaveTheSessionAlone ==
    /\ [][(entry_pc' # entry_pc /\ entry_pc' \in AfterSession) =>
              metrics_collector' = metrics_collector]_vars
    /\ [](entry_pc \in AfterSession =>
              /\ \A name \in DOMAIN fs : DetailedSection(name) = DetailedRows
              /\ last.export.ret # << >> =>
                     /\ last.export.ret \in DOMAIN fs
                     /\ DetailedSection(last.export.ret) = DetailedRows)

\* C25 witness: the exit hook has exported a session of two turns after the
\* session had ended; it wrote the spreadsheet, an earlier export had fallen
\* back to the CSV file, and both files hold the same two rows.
C25_Witness ==
    /\ entry_pc = "exited"
    /\ last.op = "export_metrics_on_exit"
    /\ Len(metrics_collector.turns) = 2
    /\ last.export.ret = DefaultFilename(metrics_collector)
    /\ CsvFilename \in DOMAIN fs
    /\ DetailedSection(CsvFilename) = DetailedSection(last.export.ret)
    /\ Len(DetailedSection(CsvFilename)) = 2


\* C26: current_turn is absent exactly when there is no turn; otherwise it is
\* the last turn, which has the highest identifier; and a step changes no
\* field of a turn other than the last one.
C26_CurrentTurnIsTheLastTurn ==
    /\ [](LET m == metrics_collector
          IN  /\ (m.current_turn = NoTurn) <=> (m.turns = << >>)
              /\ m.turns # << >> =>
                     /\ m.current_turn = Len(m.turns)
                     /\ \A i \in 1 .. Len(m.turns) :
                            m.turns[i].turn_id <= m.turns[m.current_turn].turn_id)
    /\ [][\A i \in 1 .. Len(metrics_collector.turns) :
              i # Len(metrics_collector.turns') =>
                  metrics_collector.turns'[i] = metrics_collector.turns[i]]_vars

\* C26 witness: a callback has written to the second of two turns, the one
\* the greeting created, and the first turn has none of its stamps.
C26_Witness ==
    /\ Len(metrics_collector.turns) = 2
    /\ metrics_collector.current_turn = 2
    /\ last.op = "on_user_speech_end"
    /\ metrics_collector.turns[2].user_speech_end # None
    /\ metrics_collector.turns[2].llm_processing_start # None
    /\ metrics_collector.turns[1].user_speech_end = None
    /\ metrics_collector.turns[1].llm_processing_start = None

=============================================================================
